---- MODULE Spec2Model ----
(***************************************************************************)
(* State machine of AppComponent (src/src/app/app.component.ts): the file  *)
(* browser's navigation state, its view state and the HTTP requests it has *)
(* in flight.  Every response handler runs atomically (single-threaded     *)
(* event loop); responses arrive in any order.                             *)
(***************************************************************************)
EXTENDS Integers, Sequences, FiniteSets, TLC

\* Bounds of the model.
MaxInflight == 2
MaxActions == 3
\* User events in the behaviours checked for progress.
MaxLiveActions == 2
\* Byte counts given to formatSize are m * 1024^e with m and e up to these.
MaxMantissa == 1600
MaxExponent == 4

\* currentParentId = null
NULL == "<null>"

\* An optional value is <<>> (absent) or <<v>>.
Absent == <<>>
Some(v) == <<v>>

----------------------------------------------------------------------------
\* The remote hierarchy the black-box service exposes.

RootPath == << [id |-> "root", name |-> "Root", folder |-> TRUE] >>

\* The listing the service holds for a parent.
Children(parentId) ==
    IF parentId = NULL
    THEN << [id |-> "a", parentId |-> NULL, name |-> "a", folder |-> TRUE],
            [id |-> "f", parentId |-> NULL, name |-> "f", folder |-> FALSE] >>
    ELSE IF parentId = "a"
    THEN << [id |-> "b", parentId |-> "a", name |-> "b", folder |-> TRUE] >>
    ELSE << >>

\* The ancestor chain the service holds for a folder.
Chain(id) ==
    IF id = "a"
    THEN RootPath \o << [id |-> "a", name |-> "a", folder |-> TRUE] >>
    ELSE IF id = "b"
    THEN RootPath \o << [id |-> "a", name |-> "a", folder |-> TRUE],
                        [id |-> "b", name |-> "b", folder |-> TRUE] >>
    ELSE RootPath

\* Bodies of GET /items: { items } with items possibly omitted.
ItemsResponses(parentId) ==
    { [items |-> Absent], [items |-> Some(<< >>)], [items |-> Some(Children(parentId))] }

\* Bodies of GET /items/{id}/path.
PathResponses(id) ==
    { [items |-> Absent], [items |-> Some(<< >>)], [items |-> Some(Chain(id))] }

\* HttpErrorResponse: error (the body) absent, or carrying optional desc and
\* message strings.
HttpErrors ==
    { [error |-> Absent],
      [error |-> Some([desc |-> Absent, message |-> Absent])],
      [error |-> Some([desc |-> Some("denied"), message |-> Some("busy")])],
      [error |-> Some([desc |-> Some(""), message |-> Some("busy")])] }

\* The texts typed in the new-folder field, as sequences of characters.
FolderNames == { << >>, << " ", " " >>, << " ", "x", " " >> }

----------------------------------------------------------------------------
VARIABLES
    items,            \* FileItem[]
    path,             \* PathItem[]
    currentParentId,  \* ItemId | null
    loading,
    errorMessage,
    newFolderName,
    uploading,
    started,          \* ngOnInit has run
    inflight,         \* subscribed requests awaiting a response, in dispatch order
    actions,          \* number of user events so far
    latestList,       \* fate of the most recently dispatched listing fetch
    last              \* the last handler that ran, what it sent, the state it started from

vars == <<items, path, currentParentId, loading, errorMessage, newFolderName, uploading,
          started, inflight, actions, latestList, last>>

\* JavaScript truthiness of a string | null.
Truthy(s) == s # NULL /\ s # ""

\* a ?? b on an optional value.
Coalesce(opt, default) == IF opt = Absent THEN default ELSE opt[1]

\* a || b on optional strings (undefined and '' are falsy).
OrElse(a, b) == IF a # Absent /\ a[1] # "" THEN a ELSE b

Remove(s, i) == SubSeq(s, 1, i - 1) \o SubSeq(s, i + 1, Len(s))

\* A request: its kind, the identifier or parent it carries, the name it
\* carries (as characters) and Location when it was sent.
Request(kind, target, name) ==
    [kind |-> kind, target |-> target, name |-> name, at |-> currentParentId]

Snapshot ==
    [items |-> items, path |-> path, currentParentId |-> currentParentId,
     loading |-> loading, errorMessage |-> errorMessage,
     newFolderName |-> newFolderName, uploading |-> uploading,
     inflight |-> inflight]

\* The record of a step: handler, its argument, the request it answered, the
\* response, the requests it issued and the state before it.
Step(op, arg, req, resp, rest) ==
    [op |-> op, arg |-> arg, req |-> req, resp |-> resp,
     sent |-> SubSeq(inflight', Len(rest) + 1, Len(inflight')),
     pre |-> Snapshot]

Init ==
    /\ items = << >>
    /\ path = RootPath
    /\ currentParentId = NULL
    /\ loading = FALSE
    /\ errorMessage = ""
    /\ newFolderName = << >>
    /\ uploading = FALSE
    /\ started = FALSE
    /\ inflight = << >>
    /\ actions = 0
    /\ latestList = "none"
    /\ last = [op |-> "constructor", arg |-> Absent, req |-> Absent, resp |-> Absent,
               sent |-> << >>,
               pre |-> [items |-> << >>, path |-> RootPath, currentParentId |-> NULL,
                        loading |-> FALSE, errorMessage |-> "",
                        newFolderName |-> << >>, uploading |-> FALSE,
                        inflight |-> << >>]]

----------------------------------------------------------------------------
\* loadItems that leaves the previous error message in place.
loadItemsKeepError(parentId, rest) ==
    /\ loading' = TRUE
    /\ errorMessage' = errorMessage
    /\ currentParentId' = parentId
    /\ latestList' = "pending"
    /\ inflight' = Append(rest, [kind |-> "list",
                                 target |-> IF Truthy(parentId) THEN parentId ELSE NULL,
                                 name |-> << >>, at |-> parentId])

\* loadItems(parentId), the synchronous part: flags, Location and the GET.
\* rest is the list of requests still pending when it is called.
loadItems(parentId, rest) ==
    /\ loading' = TRUE
    /\ errorMessage' = ""
    /\ currentParentId' = parentId
    /\ latestList' = "pending"
    /\ inflight' = Append(rest, [kind |-> "list",
                                 target |-> IF Truthy(parentId) THEN parentId ELSE NULL,
                                 name |-> << >>, at |-> parentId])

ngOnInit ==
    /\ ~started
    /\ started' = TRUE
    /\ loadItems(NULL, inflight)
    /\ last' = Step("ngOnInit", Absent, Absent, Absent, inflight)
    /\ UNCHANGED <<items, path, newFolderName, uploading, actions>>

\* String.prototype.trim on a sequence of characters.
RECURSIVE TrimStart(_)
TrimStart(s) == IF s # << >> /\ Head(s) = " " THEN TrimStart(Tail(s)) ELSE s

RECURSIVE TrimEnd(_)
TrimEnd(s) ==
    IF s # << >> /\ s[Len(s)] = " " THEN TrimEnd(SubSeq(s, 1, Len(s) - 1)) ELSE s

Trim(s) == TrimEnd(TrimStart(s))

\* (error.error && (error.error.desc || error.error.message)) || ''
ApiMessage(error) ==
    IF error.error = Absent
    THEN ""
    ELSE Coalesce(OrElse(error.error[1].desc, error.error[1].message), "")

\* handleError that forgets the server's description.
handleErrorNoDescription(error, fallbackMessage) ==
    /\ errorMessage' = fallbackMessage
    /\ loading' = FALSE

\* handleError that forgets to clear loading.
handleErrorKeepLoading(error, fallbackMessage) ==
    /\ errorMessage' = IF ApiMessage(error) # ""
                       THEN fallbackMessage \o " " \o ApiMessage(error)
                       ELSE fallbackMessage
    /\ loading' = loading

\* handleError(error, fallbackMessage)
handleError(error, fallbackMessage) ==
    /\ errorMessage' = IF ApiMessage(error) # ""
                       THEN fallbackMessage \o " " \o ApiMessage(error)
                       ELSE fallbackMessage
    /\ loading' = FALSE

\* loadPath(), called with rest still pending; it reads currentParentId as it
\* is when the listing response is handled.
loadPath(rest) ==
    IF ~Truthy(currentParentId)
    THEN /\ path' = RootPath
         /\ inflight' = rest
    ELSE /\ inflight' = Append(rest, Request("path", currentParentId, << >>))
         /\ UNCHANGED path

\* A user event is possible once the component is initialised.
UserEvent ==
    /\ started
    /\ actions < MaxActions
    /\ actions' = actions + 1

CanSend == Len(inflight) < MaxInflight

\* The request at position i is the most recently dispatched listing fetch.
IsLatestList(i) ==
    /\ latestList = "pending"
    /\ \A j \in (i + 1)..Len(inflight) : inflight[j].kind # "list"

----------------------------------------------------------------------------
\* The listing handler without the default for a missing items field.
ListOkNoDefault(i, response) ==
    /\ inflight[i].kind = "list"
    /\ items' = IF response.items = Absent THEN items ELSE response.items[1]
    /\ loading' = FALSE
    /\ loadPath(Remove(inflight, i))
    /\ latestList' = IF IsLatestList(i) THEN "ok" ELSE latestList
    /\ last' = Step("ListOk", Absent, Some(inflight[i]), Some(response), Remove(inflight, i))
    /\ UNCHANGED <<currentParentId, errorMessage, newFolderName, uploading, started, actions>>

\* The listing handler with a stale-response guard: a response for a
\* location that is no longer current does not touch the entry list.
ListOkGuarded(i, response) ==
    /\ inflight[i].kind = "list"
    /\ items' = IF inflight[i].target = currentParentId
                THEN Coalesce(response.items, << >>)
                ELSE items
    /\ loading' = FALSE
    /\ loadPath(Remove(inflight, i))
    /\ latestList' = IF IsLatestList(i) THEN "ok" ELSE latestList
    /\ last' = Step("ListOk", Absent, Some(inflight[i]), Some(response), Remove(inflight, i))
    /\ UNCHANGED <<currentParentId, errorMessage, newFolderName, uploading, started, actions>>

\* GET /items: next
ListOk(i, response) ==
    /\ inflight[i].kind = "list"
    /\ items' = Coalesce(response.items, << >>)
    /\ loading' = FALSE
    /\ loadPath(Remove(inflight, i))
    /\ latestList' = IF IsLatestList(i) THEN "ok" ELSE latestList
    /\ last' = Step("ListOk", Absent, Some(inflight[i]), Some(response), Remove(inflight, i))
    /\ UNCHANGED <<currentParentId, errorMessage, newFolderName, uploading, started, actions>>

\* The listing failure handler moving Location back to where the displayed
\* entries live.
ListErrRollback(i, error) ==
    /\ inflight[i].kind = "list"
    /\ handleError(error, "Unable to load items.")
    /\ inflight' = Remove(inflight, i)
    /\ latestList' = IF IsLatestList(i) THEN "failed" ELSE latestList
    /\ currentParentId' = IF items # << >> THEN items[1].parentId ELSE NULL
    /\ last' = Step("ListErr", Absent, Some(inflight[i]), Some(error), Remove(inflight, i))
    /\ UNCHANGED <<items, path, newFolderName, uploading, started, actions>>

\* The listing failure handler retrying the fetch.
ListErrRetry(i, error) ==
    /\ inflight[i].kind = "list"
    /\ handleError(error, "Unable to load items.")
    /\ inflight' = Append(Remove(inflight, i), inflight[i])
    /\ latestList' = latestList
    /\ last' = Step("ListErr", Absent, Some(inflight[i]), Some(error), Remove(inflight, i))
    /\ UNCHANGED <<items, path, currentParentId, newFolderName, uploading, started, actions>>

\* GET /items: error
ListErr(i, error) ==
    /\ inflight[i].kind = "list"
    /\ handleError(error, "Unable to load items.")
    /\ inflight' = Remove(inflight, i)
    /\ latestList' = IF IsLatestList(i) THEN "failed" ELSE latestList
    /\ last' = Step("ListErr", Absent, Some(inflight[i]), Some(error), Remove(inflight, i))
    /\ UNCHANGED <<items, path, currentParentId, newFolderName, uploading, started, actions>>

\* GET /items/{id}/path: next
PathOk(i, response) ==
    /\ inflight[i].kind = "path"
    /\ path' = Coalesce(response.items, RootPath)
    /\ inflight' = Remove(inflight, i)
    /\ last' = Step("PathOk", Absent, Some(inflight[i]), Some(response), Remove(inflight, i))
    /\ UNCHANGED <<items, currentParentId, loading, errorMessage, newFolderName, uploading,
                   started,
                   latestList, actions>>

\* GET /items/{id}/path: error
PathErr(i, error) ==
    /\ inflight[i].kind = "path"
    /\ handleError(error, "Unable to load path.")
    /\ inflight' = Remove(inflight, i)
    /\ last' = Step("PathErr", Absent, Some(inflight[i]), Some(error), Remove(inflight, i))
    /\ UNCHANGED <<items, path, currentParentId, newFolderName, uploading, started,
                   latestList, actions>>

\* navigateTo without the test for the root sentinel.
navigateToNoSentinel(item) ==
    /\ UserEvent
    /\ CanSend
    /\ loadItems(item.id, inflight)
    /\ last' = Step("navigateTo", Some(item), Absent, Absent, inflight)
    /\ UNCHANGED <<items, path, newFolderName, uploading, started>>

\* navigateTo(item), on a segment of the displayed breadcrumb
navigateTo(item) ==
    /\ UserEvent
    /\ CanSend
    /\ IF item.id = "root"
       THEN loadItems(NULL, inflight)
       ELSE loadItems(item.id, inflight)
    /\ last' = Step("navigateTo", Some(item), Absent, Absent, inflight)
    /\ UNCHANGED <<items, path, newFolderName, uploading, started>>

\* downloadItem(item), the synchronous part
downloadItem(item) ==
    /\ errorMessage' = ""
    /\ inflight' = Append(inflight, Request("download", item.id, << item.name >>))
    /\ UNCHANGED <<currentParentId, loading, latestList>>

\* openItem without the folder test: every entry is opened as a folder.
openItemAsFolder(item) ==
    /\ UserEvent
    /\ CanSend
    /\ loadItems(item.id, inflight)
    /\ last' = Step("openItem", Some(item), Absent, Absent, inflight)
    /\ UNCHANGED <<items, path, newFolderName, uploading, started>>

\* openItem(item), on an entry of the displayed listing
openItem(item) ==
    /\ UserEvent
    /\ CanSend
    /\ IF item.folder
       THEN loadItems(item.id, inflight)
       ELSE downloadItem(item)
    /\ last' = Step("openItem", Some(item), Absent, Absent, inflight)
    /\ UNCHANGED <<items, path, newFolderName, uploading, started>>

\* GET /items/{id} (blob): next.  The object URL and the link are transient.
DownloadOk(i) ==
    /\ inflight[i].kind = "download"
    /\ inflight' = Remove(inflight, i)
    /\ last' = Step("DownloadOk", Absent, Some(inflight[i]), Absent, Remove(inflight, i))
    /\ UNCHANGED <<items, path, currentParentId, loading, errorMessage, newFolderName,
                   uploading, started,
                   latestList, actions>>

\* GET /items/{id} (blob): error
DownloadErr(i, error) ==
    /\ inflight[i].kind = "download"
    /\ handleError(error, "Unable to download file.")
    /\ inflight' = Remove(inflight, i)
    /\ last' = Step("DownloadErr", Absent, Some(inflight[i]), Some(error), Remove(inflight, i))
    /\ UNCHANGED <<items, path, currentParentId, newFolderName, uploading, started,
                   latestList, actions>>

\* onUploadChange(event); file is input.files?.[0]
onUploadChange(file) ==
    /\ UserEvent
    /\ IF file = Absent
       THEN UNCHANGED <<uploading, errorMessage, inflight>>
       ELSE /\ CanSend
            /\ uploading' = TRUE
            /\ errorMessage' = ""
            /\ inflight' = Append(inflight,
                    Request("upload", IF Truthy(currentParentId) THEN currentParentId ELSE NULL,
                            << file[1] >>))
    /\ last' = Step("onUploadChange", file, Absent, Absent, inflight)
    /\ UNCHANGED <<items, path, currentParentId, loading, newFolderName, started,
                   latestList>>

\* POST /items (multipart): next
UploadOk(i) ==
    /\ inflight[i].kind = "upload"
    /\ uploading' = FALSE
    /\ loadItems(currentParentId, Remove(inflight, i))
    /\ last' = Step("UploadOk", Absent, Some(inflight[i]), Absent, Remove(inflight, i))
    /\ UNCHANGED <<items, path, newFolderName, started, actions>>

\* POST /items (multipart): error
UploadErr(i, error) ==
    /\ inflight[i].kind = "upload"
    /\ uploading' = FALSE
    /\ handleError(error, "Unable to upload file.")
    /\ inflight' = Remove(inflight, i)
    /\ last' = Step("UploadErr", Absent, Some(inflight[i]), Some(error), Remove(inflight, i))
    /\ UNCHANGED <<items, path, currentParentId, newFolderName, started,
                   latestList, actions>>

\* The two-way binding of the new-folder field.
setNewFolderName(name) ==
    /\ UserEvent
    /\ name # newFolderName
    /\ newFolderName' = name
    /\ UNCHANGED inflight
    /\ last' = Step("setNewFolderName", Some(name), Absent, Absent, inflight)
    /\ UNCHANGED <<items, path, currentParentId, loading, errorMessage, uploading, started,
                   latestList>>

\* createFolder testing the raw field instead of the trimmed name.
createFolderNoTrim ==
    /\ UserEvent
    /\ IF newFolderName = << >>
       THEN UNCHANGED <<errorMessage, inflight>>
       ELSE /\ CanSend
            /\ errorMessage' = ""
            /\ inflight' = Append(inflight,
                    Request("create", currentParentId, Trim(newFolderName)))
    /\ last' = Step("createFolder", Absent, Absent, Absent, inflight)
    /\ UNCHANGED <<items, path, currentParentId, loading, newFolderName, uploading, started,
                   latestList>>

\* createFolder()
createFolder ==
    /\ UserEvent
    /\ IF Trim(newFolderName) = << >>
       THEN UNCHANGED <<errorMessage, inflight>>
       ELSE /\ CanSend
            /\ errorMessage' = ""
            /\ inflight' = Append(inflight,
                    Request("create", currentParentId, Trim(newFolderName)))
    /\ last' = Step("createFolder", Absent, Absent, Absent, inflight)
    /\ UNCHANGED <<items, path, currentParentId, loading, newFolderName, uploading, started,
                   latestList>>

\* POST /items (JSON): next
CreateOk(i) ==
    /\ inflight[i].kind = "create"
    /\ newFolderName' = << >>
    /\ loadItems(currentParentId, Remove(inflight, i))
    /\ last' = Step("CreateOk", Absent, Some(inflight[i]), Absent, Remove(inflight, i))
    /\ UNCHANGED <<items, path, uploading, started, actions>>

\* POST /items (JSON): error
CreateErr(i, error) ==
    /\ inflight[i].kind = "create"
    /\ handleError(error, "Unable to create folder.")
    /\ inflight' = Remove(inflight, i)
    /\ last' = Step("CreateErr", Absent, Some(inflight[i]), Some(error), Remove(inflight, i))
    /\ UNCHANGED <<items, path, currentParentId, newFolderName, uploading, started,
                   latestList, actions>>

\* deleteItem(item), on an entry of the displayed listing
deleteItem(item) ==
    /\ UserEvent
    /\ CanSend
    /\ errorMessage' = ""
    /\ inflight' = Append(inflight, Request("delete", item.id, << item.name >>))
    /\ last' = Step("deleteItem", Some(item), Absent, Absent, inflight)
    /\ UNCHANGED <<items, path, currentParentId, loading, newFolderName, uploading, started,
                   latestList>>

\* The delete handler refreshing root instead of the current Location.
DeleteOkRoot(i) ==
    /\ inflight[i].kind = "delete"
    /\ loadItems(NULL, Remove(inflight, i))
    /\ last' = Step("DeleteOk", Absent, Some(inflight[i]), Absent, Remove(inflight, i))
    /\ UNCHANGED <<items, path, newFolderName, uploading, started, actions>>

\* DELETE /items/{id}: next
DeleteOk(i) ==
    /\ inflight[i].kind = "delete"
    /\ loadItems(currentParentId, Remove(inflight, i))
    /\ last' = Step("DeleteOk", Absent, Some(inflight[i]), Absent, Remove(inflight, i))
    /\ UNCHANGED <<items, path, newFolderName, uploading, started, actions>>

\* DELETE /items/{id}: error
DeleteErr(i, error) ==
    /\ inflight[i].kind = "delete"
    /\ handleError(error, "Unable to delete item.")
    /\ inflight' = Remove(inflight, i)
    /\ last' = Step("DeleteErr", Absent, Some(inflight[i]), Some(error), Remove(inflight, i))
    /\ UNCHANGED <<items, path, currentParentId, newFolderName, uploading, started,
                   latestList, actions>>

----------------------------------------------------------------------------
Range(s) == { s[k] : k \in 1..Len(s) }

Next ==
    \/ ngOnInit
    \/ \E i \in 1..Len(inflight) : \E response \in ItemsResponses(inflight[i].target) :
          ListOk(i, response)
    \/ \E i \in 1..Len(inflight) : \E error \in HttpErrors : ListErr(i, error)
    \/ \E i \in 1..Len(inflight) : \E response \in PathResponses(inflight[i].target) :
          PathOk(i, response)
    \/ \E i \in 1..Len(inflight) : \E error \in HttpErrors : PathErr(i, error)
    \/ \E item \in Range(path) : navigateTo(item)
    \/ \E item \in Range(items) : openItem(item)
    \/ \E i \in 1..Len(inflight) : DownloadOk(i)
    \/ \E i \in 1..Len(inflight) : \E error \in HttpErrors : DownloadErr(i, error)
    \/ \E file \in { Absent, Some("file") } : onUploadChange(file)
    \/ \E i \in 1..Len(inflight) : UploadOk(i)
    \/ \E i \in 1..Len(inflight) : \E error \in HttpErrors : UploadErr(i, error)
    \/ \E name \in FolderNames : setNewFolderName(name)
    \/ createFolder
    \/ \E i \in 1..Len(inflight) : CreateOk(i)
    \/ \E i \in 1..Len(inflight) : \E error \in HttpErrors : CreateErr(i, error)
    \/ \E item \in Range(items) : deleteItem(item)
    \/ \E i \in 1..Len(inflight) : DeleteOk(i)
    \/ \E i \in 1..Len(inflight) : \E error \in HttpErrors : DeleteErr(i, error)

Spec == Init /\ [][Next]_vars

----------------------------------------------------------------------------
\* Vocabulary of the properties.

Kinds(seq) == [k \in 1..Len(seq) |-> seq[k].kind]

ListInFlight == \E k \in 1..Len(inflight) : inflight[k].kind = "list"

UploadInFlight == \E k \in 1..Len(inflight) : inflight[k].kind = "upload"

FailureOps == {"ListErr", "PathErr", "UploadErr", "CreateErr", "DeleteErr", "DownloadErr"}

FallbackOf(op) ==
    CASE op = "ListErr" -> "Unable to load items."
      [] op = "PathErr" -> "Unable to load path."
      [] op = "UploadErr" -> "Unable to upload file."
      [] op = "CreateErr" -> "Unable to create folder."
      [] op = "DeleteErr" -> "Unable to delete item."
      [] op = "DownloadErr" -> "Unable to download file."

\* The description an error body carries: its non-empty desc, else its
\* non-empty message, else nothing.
DescriptionOf(error) ==
    IF error.error = Absent THEN Absent
    ELSE IF error.error[1].desc \notin {Absent, Some("")} THEN error.error[1].desc
    ELSE IF error.error[1].message \notin {Absent, Some("")} THEN error.error[1].message
    ELSE Absent

ExpectedMessage(op, error) ==
    IF DescriptionOf(error) = Absent
    THEN FallbackOf(op)
    ELSE FallbackOf(op) \o " " \o DescriptionOf(error)[1]

----------------------------------------------------------------------------
\* C1: whenever Location is root and the listing fetch for root has completed
\* successfully, the breadcrumb is exactly the root-only segment, whatever
\* other responses arrive.
C1_RootBreadcrumb ==
    (currentParentId = NULL /\ latestList = "ok") => path = RootPath

\* C2 (as claimed): a successful delete issues exactly one listing fetch, for
\* the Location that was active when deleteItem was called.
C2_RefreshAtDispatchLocation ==
    last.op = "DeleteOk" =>
        /\ Kinds(last.sent) = <<"list">>
        /\ last.sent[1].target = last.req[1].at

\* C2 (amended): a successful delete issues exactly one listing fetch, for the
\* Location current when the success is handled, and leaves Location as it is.
C2_RefreshCurrentLocation ==
    last.op = "DeleteOk" =>
        /\ Kinds(last.sent) = <<"list">>
        /\ last.sent[1].target = last.pre.currentParentId
        /\ currentParentId = last.pre.currentParentId

\* A delete sent from a folder succeeded after the user went back to root.
C2_Witness ==
    /\ last.op = "DeleteOk"
    /\ last.req[1].at # NULL
    /\ last.pre.currentParentId = NULL

\* C3 (as claimed): after any failure handler, errorMessage is the fallback
\* followed by the description when there is one, the fallback alone
\* otherwise, and loading and uploading are both false.
C3_FailureClearsBothFlags ==
    last.op \in FailureOps =>
        /\ errorMessage = ExpectedMessage(last.op, last.resp[1])
        /\ ~loading
        /\ ~uploading

\* C3 (amended): after any failure handler, errorMessage is the fallback
\* followed by the description when there is one, the fallback alone
\* otherwise, and loading is false; uploading is false after an upload
\* failure and is left as it was by any other failure.
C3_FailureMessageAndFlags ==
    last.op \in FailureOps =>
        /\ errorMessage = ExpectedMessage(last.op, last.resp[1])
        /\ ~loading
        /\ uploading = IF last.op = "UploadErr" THEN FALSE ELSE last.pre.uploading

\* A failure with a description was handled while loading was set and another
\* request was still pending.
C3_Witness ==
    /\ last.op \in FailureOps
    /\ DescriptionOf(last.resp[1]) # Absent
    /\ last.pre.loading
    /\ inflight # << >>

\* C4: uploading is true while an upload request is in flight and false once
\* an upload has succeeded or failed.
C4_UploadingWhileInFlight ==
    /\ UploadInFlight => uploading
    /\ (last.op \in {"UploadOk", "UploadErr"} /\ ~UploadInFlight) => ~uploading

\* C5: a successful listing response for L resolves the breadcrumb of L:
\* the root-only breadcrumb and no request when L is root, a path request for
\* L otherwise.
C5_PathForListedLocation ==
    last.op = "ListOk" =>
        IF last.req[1].target = NULL
        THEN path = RootPath /\ last.sent = << >>
        ELSE /\ Kinds(last.sent) = <<"path">>
             /\ last.sent[1].target = last.req[1].target

\* C6: right after a successful listing response the entry list is exactly
\* the response's items (empty when the field is missing) and loading is
\* false.
C6_ListingReplacesItems ==
    last.op = "ListOk" =>
        /\ items = (IF last.resp[1].items = Absent THEN << >> ELSE last.resp[1].items[1])
        /\ ~loading

\* A listing response without items replaced a non-empty entry list while
\* another request was pending.
C6_Witness ==
    /\ last.op = "ListOk"
    /\ last.resp[1].items = Absent
    /\ last.pre.items # << >>
    /\ Len(last.pre.inflight) > 1

\* C7: a failed upload, create-folder or delete leaves the entry list, the
\* breadcrumb, Location and loading as they were.
C7_WriteFailureFrame ==
    last.op \in {"UploadErr", "CreateErr", "DeleteErr"} =>
        /\ items = last.pre.items
        /\ path = last.pre.path
        /\ currentParentId = last.pre.currentParentId
        /\ loading = last.pre.loading

\* C8: the entry list is that of the most recently handled successful listing
\* response, whatever the dispatch order: only such a response changes it.
C8_LastResponseWins ==
    IF last.op = "ListOk"
    THEN items = (IF last.resp[1].items = Absent THEN << >> ELSE last.resp[1].items[1])
    ELSE items = last.pre.items

\* Quiescent at folder a, whose own listing fetch succeeded, yet showing the
\* entries of root.
C8_Witness ==
    /\ inflight = << >>
    /\ currentParentId = "a"
    /\ latestList = "ok"
    /\ items = Children(NULL)

\* C9: when no listing fetch is in flight, loading is false.
C9_NoListNoLoading ==
    ~ListInFlight => ~loading

\* The last outstanding listing fetch has just failed.
C9_Witness ==
    /\ last.op = "ListErr"
    /\ last.pre.loading
    /\ ~ListInFlight

\* C10: opening a folder sets Location to it and issues a listing fetch for
\* it; opening a file leaves Location alone and issues one download request
\* for it and nothing else.
C10_OpenItem ==
    last.op = "openItem" =>
        IF last.arg[1].folder
        THEN /\ currentParentId = last.arg[1].id
             /\ Kinds(last.sent) = <<"list">>
             /\ last.sent[1].target = last.arg[1].id
        ELSE /\ currentParentId = last.pre.currentParentId
             /\ Kinds(last.sent) = <<"download">>
             /\ last.sent[1].target = last.arg[1].id

\* A file was opened while Location was a folder.
C10_Witness ==
    /\ last.op = "openItem"
    /\ ~last.arg[1].folder
    /\ currentParentId # NULL

----------------------------------------------------------------------------
\* formatSize.  A number is [m, e], standing for m * 1024^e: division by 1024
\* is exact on a double, and so is it here.

RECURSIVE Pow1024(_)
Pow1024(k) == IF k = 0 THEN 1 ELSE 1024 * Pow1024(k - 1)

\* value >= n, for 0 < n <= 1024
AtLeast(value, n) ==
    IF value.e >= 1
    THEN value.m >= 1
    ELSE value.m \div Pow1024(0 - value.e) >= n

Units == << "B", "KB", "MB", "GB" >>

\* The while loop without the bound on unitIndex.
RECURSIVE ScaleUncapped(_, _)
ScaleUncapped(value, unitIndex) ==
    IF AtLeast(value, 1024) /\ unitIndex < Len(Units)
    THEN ScaleUncapped([m |-> value.m, e |-> value.e - 1], unitIndex + 1)
    ELSE [value |-> value, unitIndex |-> unitIndex]

\* while (value >= 1024 && unitIndex < units.length - 1)
RECURSIVE Scale(_, _)
Scale(value, unitIndex) ==
    IF AtLeast(value, 1024) /\ unitIndex < Len(Units) - 1
    THEN Scale([m |-> value.m, e |-> value.e - 1], unitIndex + 1)
    ELSE [value |-> value, unitIndex |-> unitIndex]

\* Number.prototype.toFixed(digits), digits 0 or 1: the nearest decimal, the
\* larger one on a tie.
ToFixed(value, digits) ==
    IF value.e >= 0
    THEN ToString(value.m * Pow1024(value.e)) \o (IF digits = 1 THEN ".0" ELSE "")
    ELSE LET d == Pow1024(0 - value.e)
             q == value.m \div d
             r == value.m % d
             tenths == ((10 * r) \div d) + (IF 2 * ((10 * r) % d) >= d THEN 1 ELSE 0)
             n == 10 * q + tenths
         IN  IF digits = 1
             THEN ToString(n \div 10) \o "." \o ToString(n % 10)
             ELSE ToString(q + (IF 2 * r >= d THEN 1 ELSE 0))

\* units[unitIndex]
UnitName(unitIndex) == IF unitIndex < Len(Units) THEN Units[unitIndex + 1] ELSE "undefined"

\* formatSize(size?)
formatSize(size) ==
    IF size = Absent \/ size[1].m = 0
    THEN "-"
    ELSE LET scaled == Scale(size[1], 0)
         IN  ToFixed(scaled.value,
                     IF AtLeast(scaled.value, 10) \/ scaled.unitIndex = 0 THEN 0 ELSE 1)
             \o " " \o UnitName(scaled.unitIndex)

\* The byte counts the template hands to formatSize.
Sizes ==
    { Absent } \cup { Some([m |-> m, e |-> e]) : m \in 0..MaxMantissa, e \in 0..MaxExponent }

\* The component as constructed, about to render an entry of some size.
InitFormat ==
    /\ items = << >>
    /\ path = RootPath
    /\ currentParentId = NULL
    /\ loading = FALSE
    /\ errorMessage = ""
    /\ newFolderName = << >>
    /\ uploading = FALSE
    /\ started = FALSE
    /\ inflight = << >>
    /\ actions = 0
    /\ latestList = "none"
    /\ \E size \in Sizes :
          last = [op |-> "render", arg |-> size, req |-> Absent, resp |-> Absent,
                  sent |-> << >>,
                  pre |-> [items |-> << >>, path |-> RootPath, currentParentId |-> NULL,
                           loading |-> FALSE, errorMessage |-> "",
                           newFolderName |-> << >>, uploading |-> FALSE,
                           inflight |-> << >>]]

\* The template's call of formatSize on that size.
RenderSize ==
    /\ last.op = "render"
    /\ last' = [last EXCEPT !.op = "formatSize", !.resp = Some(formatSize(last.arg))]
    /\ UNCHANGED <<items, path, currentParentId, loading, errorMessage, newFolderName,
                   uploading, started, inflight, actions, latestList>>

NextFormat == RenderSize

SpecFormat == InitFormat /\ [][NextFormat]_vars

Formats(m, e, text) ==
    (last.op = "formatSize" /\ last.arg = Some([m |-> m, e |-> e])) => last.resp = Some(text)

\* C16 (as claimed): formatSize gives '-' for 0 and for no size, '0 B' for
\* 512, '2 KB' for 2048, '1.5 KB' for 1536, '15 MB' for 15 * 1024^2 and
\* '1024.0 GB' for 1024^4.
C16_DocumentedExamples ==
    /\ Formats(0, 0, "-")
    /\ (last.op = "formatSize" /\ last.arg = Absent) => last.resp = Some("-")
    /\ Formats(512, 0, "0 B")
    /\ Formats(2, 1, "2 KB")
    /\ Formats(1536, 0, "1.5 KB")
    /\ Formats(15, 2, "15 MB")
    /\ Formats(1, 4, "1024.0 GB")

\* C16 (amended): formatSize gives '-' for 0 and for no size, '512 B' for
\* 512, '2.0 KB' for 2048, '1.5 KB' for 1536, '15 MB' for 15 * 1024^2 and
\* '1024 GB' for 1024^4.
C16_ComputedExamples ==
    /\ Formats(0, 0, "-")
    /\ (last.op = "formatSize" /\ last.arg = Absent) => last.resp = Some("-")
    /\ Formats(512, 0, "512 B")
    /\ Formats(2, 1, "2.0 KB")
    /\ Formats(1536, 0, "1.5 KB")
    /\ Formats(15, 2, "15 MB")
    /\ Formats(1, 4, "1024 GB")

\* 1024^4 bytes have been formatted.
C16_Witness ==
    /\ last.op = "formatSize"
    /\ last.arg = Some([m |-> 1, e |-> 4])
    /\ last.resp # Absent

\* The operations that end in loadItems, and the target each passes.
NavigationOps == {"ngOnInit", "navigateTo", "openItem", "UploadOk", "CreateOk", "DeleteOk"}

IsNavigation ==
    /\ last.op \in NavigationOps
    /\ last.op = "openItem" => last.arg[1].folder

NavigationTarget ==
    CASE last.op = "ngOnInit" -> NULL
      [] last.op = "navigateTo" -> IF last.arg[1].id = "root" THEN NULL ELSE last.arg[1].id
      [] last.op = "openItem" -> last.arg[1].id
      [] OTHER -> last.pre.currentParentId

\* C11: every navigation sets Location to its target, empties errorMessage,
\* sets loading and issues exactly one listing fetch filtered by the target;
\* the root segment of the breadcrumb leads to root, with no parent filter.
C11_Navigation ==
    IsNavigation =>
        /\ currentParentId = NavigationTarget
        /\ errorMessage = ""
        /\ loading
        /\ Kinds(last.sent) = <<"list">>
        /\ last.sent[1].target = NavigationTarget

\* The root segment was clicked from a folder while an error was shown.
C11_Witness ==
    /\ last.op = "navigateTo"
    /\ last.arg[1].id = "root"
    /\ last.pre.currentParentId # NULL
    /\ last.pre.errorMessage # ""
    /\ ~last.pre.loading

Blank(name) == \A k \in 1..Len(name) : name[k] = " "

Rejected ==
    \/ last.op = "createFolder" /\ Blank(last.pre.newFolderName)
    \/ last.op = "onUploadChange" /\ last.arg = Absent

\* C12: createFolder with a blank name and onUploadChange without a file send
\* nothing and leave every field as it was.
C12_RejectionsAreNoOps ==
    Rejected =>
        /\ last.sent = << >>
        /\ inflight = last.pre.inflight
        /\ items = last.pre.items
        /\ path = last.pre.path
        /\ currentParentId = last.pre.currentParentId
        /\ loading = last.pre.loading
        /\ uploading = last.pre.uploading
        /\ errorMessage = last.pre.errorMessage
        /\ newFolderName = last.pre.newFolderName

\* createFolder was called on an all-whitespace name while an error was shown.
C12_Witness ==
    /\ last.op = "createFolder"
    /\ last.pre.newFolderName = << " ", " " >>
    /\ errorMessage # ""

\* C13: a successful path response replaces the breadcrumb by its segments,
\* or by the root-only segment when the segments are absent or empty; the
\* breadcrumb is never empty.
C13_BreadcrumbNeverEmpty ==
    /\ path # << >>
    /\ last.op = "PathOk" =>
          path = IF last.resp[1].items \in {Absent, Some(<< >>)}
                 THEN RootPath
                 ELSE last.resp[1].items[1]

DownloadOps == {"DownloadOk", "DownloadErr"}

\* C14: the dispatch, the success and the failure of a download leave
\* Location, the entry list, the breadcrumb, loading and uploading as they
\* were and send no listing or path request.
C14_DownloadFrame ==
    (last.op \in DownloadOps \/ (last.op = "openItem" /\ ~last.arg[1].folder)) =>
        /\ currentParentId = last.pre.currentParentId
        /\ items = last.pre.items
        /\ path = last.pre.path
        /\ loading = last.pre.loading
        /\ uploading = last.pre.uploading
        /\ \A k \in 1..Len(last.sent) : last.sent[k].kind \notin {"list", "path"}

\* C15: a failed path request leaves the entry list, the breadcrumb and
\* Location as they were; only errorMessage is set, through the shared mapping.
C15_PathFailureFrame ==
    last.op = "PathErr" =>
        /\ items = last.pre.items
        /\ path = last.pre.path
        /\ currentParentId = last.pre.currentParentId
        /\ errorMessage = ExpectedMessage("PathErr", last.resp[1])
        /\ loading = last.pre.loading
        /\ uploading = last.pre.uploading
        /\ newFolderName = last.pre.newFolderName

\* C17: while loading is set, no error message is shown.
C17_LoadingHasNoError ==
    loading => errorMessage = ""

\* A navigation has just cleared the error left by an earlier failure.
C17_Witness ==
    /\ loading
    /\ IsNavigation
    /\ last.pre.errorMessage # ""

\* C18: while the most recently dispatched listing fetch is in flight,
\* loading is true.
C18_LoadingWhileLatestPending ==
    latestList = "pending" => loading

\* The parent an upload or a create-folder request carries for a Location.
ParentSent(location) == IF location = NULL \/ location = "" THEN NULL ELSE location

\* C19: Location is committed when the listing fetch is dispatched and a
\* failed fetch does not take it back: the pending latest fetch is for
\* Location; its failure leaves Location, the entry list and the breadcrumb
\* as they were; uploads and folder creations carry Location as parent and a
\* successful mutation refreshes Location, whatever entries are displayed.
C19_LocationCommittedAtDispatch ==
    /\ latestList = "pending" =>
          \E k \in 1..Len(inflight) :
             /\ inflight[k].kind = "list"
             /\ inflight[k].at = currentParentId
             /\ \A j \in (k + 1)..Len(inflight) : inflight[j].kind # "list"
    /\ last.op = "ListErr" =>
          /\ currentParentId = last.pre.currentParentId
          /\ items = last.pre.items
          /\ path = last.pre.path
    /\ (last.op \in {"onUploadChange", "createFolder"} /\ last.sent # << >>) =>
          /\ Kinds(last.sent) \in { <<"upload">>, <<"create">> }
          /\ last.sent[1].target = ParentSent(currentParentId)
          /\ currentParentId = last.pre.currentParentId
    /\ last.op \in {"UploadOk", "CreateOk", "DeleteOk"} =>
          /\ Kinds(last.sent) = <<"list">>
          /\ last.sent[1].target = ParentSent(last.pre.currentParentId)
          /\ currentParentId = last.pre.currentParentId

\* After the navigation to folder a failed, with root's entries still
\* displayed, an upload was sent with a as parent.
C19_Witness ==
    /\ latestList = "failed"
    /\ currentParentId = "a"
    /\ items = Children(NULL)
    /\ path = RootPath
    /\ last.op = "onUploadChange"
    /\ Kinds(last.sent) = <<"upload">>
    /\ last.sent[1].target = "a"

----------------------------------------------------------------------------
\* Every request in flight is eventually answered, and Angular runs ngOnInit.
Respond ==
    \E i \in 1..Len(inflight) :
       \/ \E response \in ItemsResponses(inflight[i].target) : ListOk(i, response)
       \/ \E response \in PathResponses(inflight[i].target) : PathOk(i, response)
       \/ DownloadOk(i)
       \/ UploadOk(i)
       \/ CreateOk(i)
       \/ DeleteOk(i)
       \/ \E error \in HttpErrors :
             \/ ListErr(i, error)
             \/ PathErr(i, error)
             \/ DownloadErr(i, error)
             \/ UploadErr(i, error)
             \/ CreateErr(i, error)
             \/ DeleteErr(i, error)

\* The component under a user who stops after MaxLiveActions events.
NextLive == Next /\ actions' <= MaxLiveActions

SpecLive == Init /\ [][NextLive]_vars /\ WF_vars(Respond) /\ WF_vars(ngOnInit)

Quiescent == inflight = << >> /\ ~loading /\ ~uploading

\* C20: with finitely many user events and every request answered, the
\* component ends up quiescent for good (nothing in flight, loading and
\* uploading false); a failure handler sends nothing and no handler sends
\* more than one request.
C20_EventuallyQuiescent ==
    /\ [](last.op \in FailureOps => last.sent = << >>)
    /\ [](Len(last.sent) <= 1)
    /\ <>[]Quiescent

\* Quiescent with the user's events used up, the last response a failure.
C20_Witness ==
    /\ Quiescent
    /\ actions = MaxLiveActions
    /\ last.op \in FailureOps
    /\ last.pre.inflight # << >>

====
